---- MODULE Spec2Model ----
(***************************************************************************)
(* Model of the Assistant data layer: configuration loading (config.py),  *)
(* the ORM schema, session factory and bootstrap helpers (database/db.py) *)
(* and the stand-alone bootstrap script (database/init_db.py).            *)
(*                                                                         *)
(* Three specifications share the module:                                  *)
(*   SpecConfig  configuration loading and module import                   *)
(*   SpecBoot    processes running the bootstrap routines on one server    *)
(*   SpecData    units-of-work inserting rows through the session factory  *)
(*                                                                         *)
(* db.py reads the name DATABASE_URL and init_db.py imports DATABASE_URL,  *)
(* engine and Base from config; the model resolves these names to the      *)
(* value config.py binds and to db.py's engine and Base.                   *)
(***************************************************************************)
EXTENDS Integers, Sequences, FiniteSets, TLC

VARIABLES
    \* ---- configuration (config.py, db.py module level)
    osEnviron,      \* the process environment: variable name -> value or Unset
    dotenvFile,     \* the .env file: variable name -> value or Unset
    cfgPc,          \* position of the import of config / db
    cfgVals,        \* config.py's module globals
    engineState,    \* db.py's engine / SessionLocal: "none" or "built"
    netCalls,       \* connections opened so far by this process
    \* ---- server and bootstrap processes (db.py, init_db.py)
    catalog,        \* pg_database: database name -> number of entries
    catalogInit,    \* the catalog at the start (history)
    tables,         \* tables of the target database: name -> shape
    tablesInit,     \* the tables at the start (history)
    prog,           \* the entry point each process runs
    callsLeft,      \* calls of create_database_if_not_exists still to make
    pc,             \* each process's position
    missing,        \* tables create_all found missing
    err,            \* the exception that ended the process, or NoErr
    caught,         \* the exception init_db.py's try/except caught, or NoErr
    reports,        \* the status lines the process printed
    queryCount,     \* catalog queries issued in the current invocation
    createCount,    \* CREATE DATABASE statements issued in the current invocation
    engineErrs,     \* errors the engine raised to the process (history)
    faultsLeft,     \* engine faults the environment may still inject
    \* ---- units of work (SessionLocal, ORM models)
    committed,      \* rows durably stored
    pending,        \* per session: objects added and not flushed
    flushed,        \* per session: rows written in its open transaction
    seq,            \* per table: last value of the primary-key sequence
    clock,          \* the data layer's clock (datetime.utcnow)
    finalized,      \* keys of rows whose session called commit() (history)
    insertLog,      \* dates of default-dated rows in insertion order (history)
    objsMade,       \* objects constructed so far
    sessErr         \* per session: the error its last operation raised, or NoErr

cfgVars == <<osEnviron, dotenvFile, cfgPc, cfgVals, engineState, netCalls>>
bootVars == <<catalog, catalogInit, tables, tablesInit, prog, callsLeft, pc,
              missing, err, caught, reports, queryCount, createCount, engineErrs,
              faultsLeft>>
dataVars == <<committed, pending, flushed, seq, clock, finalized, insertLog,
              objsMade, sessErr>>
vars == <<cfgVars, bootVars, dataVars>>

(***************************************************************************)
(* Bounds of the model.                                                    *)
(***************************************************************************)
MaxCalls == 2       \* successive calls of create_database_if_not_exists
MaxFaults == 1      \* engine faults (connectivity, privilege) injected per run
MaxObjs == 2        \* objects constructed over all sessions
MaxClock == 1       \* ticks of the clock

(***************************************************************************)
(* Configuration: config.py                                                *)
(***************************************************************************)
Unset == "<unset>"
EnvNames == {"DATABASE_URL", "BOT_TOKEN", "OPENAI_API_KEY"}
UrlValues == {Unset, "", "postgresql://app@db/assistant"}
TokenValues == {Unset, "secret"}
EnvSpace == {e \in [EnvNames -> UrlValues \cup TokenValues] :
                /\ e["DATABASE_URL"] \in UrlValues
                /\ e["BOT_TOKEN"] \in TokenValues
                /\ e["OPENAI_API_KEY"] \in TokenValues}

\* load_dotenv(): a variable of the .env file is set in the environment
\* unless the environment already holds it (override is off).
load_dotenv(environ, file) ==
    [k \in EnvNames |-> IF environ[k] # Unset THEN environ[k] ELSE file[k]]

\* os.getenv(name): the value, or None (Unset)
getenv(environ, name) == environ[name]

\* a mutant of the guard: only a missing value is refused
MissingOnly(url) == url = Unset

\* `not DATABASE_URL`: None and the empty string are both falsy
NotDatabaseUrl(url) == url = Unset \/ url = ""

NoVals == [k \in EnvNames |-> Unset]

\* config.py line 5
LoadDotenv ==
    /\ cfgPc = "start"
    /\ osEnviron' = load_dotenv(osEnviron, dotenvFile)
    /\ cfgPc' = "dotenv_loaded"
    /\ UNCHANGED <<dotenvFile, cfgVals, engineState, netCalls>>
    /\ UNCHANGED <<bootVars, dataVars>>

\* config.py lines 7-9
ReadEnv ==
    /\ cfgPc = "dotenv_loaded"
    /\ cfgVals' = [k \in EnvNames |-> getenv(osEnviron, k)]
    /\ cfgPc' = "values_read"
    /\ UNCHANGED <<osEnviron, dotenvFile, engineState, netCalls>>
    /\ UNCHANGED <<bootVars, dataVars>>

\* config.py lines 12-13
CheckRequired ==
    /\ cfgPc = "values_read"
    /\ cfgPc' = IF NotDatabaseUrl(cfgVals["DATABASE_URL"])
                THEN "failed" ELSE "config_loaded"
    /\ UNCHANGED <<osEnviron, dotenvFile, cfgVals, engineState, netCalls>>
    /\ UNCHANGED <<bootVars, dataVars>>

\* db.py lines 18-24: create_engine and sessionmaker open no connection
ImportDb ==
    /\ cfgPc = "config_loaded"
    /\ engineState' = "built"
    /\ cfgPc' = "db_imported"
    /\ UNCHANGED <<osEnviron, dotenvFile, cfgVals, netCalls>>
    /\ UNCHANGED <<bootVars, dataVars>>

\* the first statement run through an engine opens a connection
FirstConnect ==
    /\ cfgPc = "db_imported"
    /\ engineState = "built"
    /\ netCalls' = netCalls + 1
    /\ cfgPc' = "connected"
    /\ UNCHANGED <<osEnviron, dotenvFile, cfgVals, engineState>>
    /\ UNCHANGED <<bootVars, dataVars>>

(***************************************************************************)
(* The ORM schema: db.py lines 30-150.  A table's shape is its columns and *)
(* its foreign keys <<column, parent table>>.                              *)
(***************************************************************************)
Shape(cols, fks) == [cols |-> cols, fks |-> fks]

Role == Shape({"role_id", "name"}, {})
User == Shape({"user_id", "username", "email", "role_id"},
              {<<"role_id", "Roles">>})
Project == Shape({"project_id", "name", "description", "start_date", "end_date"},
                 {})
Backlog == Shape({"backlog_id", "project_id", "name", "priority", "created_date"},
                 {<<"project_id", "Projects">>})
Resource == Shape({"resource_id", "project_id", "name", "type", "url"},
                  {<<"project_id", "Projects">>})
Status == Shape({"status_id", "name"}, {})
\* a mutant of Task: project_id declared without its ForeignKey
TaskNoProjectKey ==
    Shape({"task_id", "project_id", "title", "description", "status_id",
           "assigned_user_id", "deadline"},
          {<<"status_id", "Statuses">>, <<"assigned_user_id", "Users">>})
Task == Shape({"task_id", "project_id", "title", "description", "status_id",
               "assigned_user_id", "deadline"},
              {<<"project_id", "Projects">>, <<"status_id", "Statuses">>,
               <<"assigned_user_id", "Users">>})
Log == Shape({"log_id", "task_id", "user_id", "change_description", "change_date"},
             {<<"task_id", "Tasks">>, <<"user_id", "Users">>})
Comment == Shape({"comment_id", "task_id", "user_id", "content", "created_date"},
                 {<<"task_id", "Tasks">>, <<"user_id", "Users">>})

\* Base.metadata: __tablename__ -> mapped class
DeclaredTables == {"Roles", "Users", "Projects", "Backlog", "Resources",
                   "Statuses", "Tasks", "Logs", "Comments"}
Metadata ==
    [t \in DeclaredTables |->
        CASE t = "Roles" -> Role
          [] t = "Users" -> User
          [] t = "Projects" -> Project
          [] t = "Backlog" -> Backlog
          [] t = "Resources" -> Resource
          [] t = "Statuses" -> Status
          [] t = "Tasks" -> Task
          [] t = "Logs" -> Log
          [] t = "Comments" -> Comment]

(***************************************************************************)
(* The server: pg_database and the target database's tables.              *)
(***************************************************************************)
TargetDb == "assistant"     \* url.database
DefaultDb == "postgres"     \* url.set(database="postgres")
DbNames == {DefaultDb, TargetDb}
NoErr == "none"

Restrict(f, S) == [x \in S |-> f[x]]
NoTables == Restrict(Metadata, {})
\* tables found in the target database before the bootstrap runs: none, all
\* nine, some of them, or a table of another shape beside a foreign one
LegacyTables ==
    [t \in {"Tasks", "Notes"} |->
        IF t = "Tasks" THEN Shape({"task_id", "title"}, {})
        ELSE Shape({"note_id", "body"}, {})]
InitialTables == {NoTables, Metadata, Restrict(Metadata, {"Roles", "Users"}),
                  LegacyTables}

\* SELECT 1 FROM pg_database WHERE datname = :dbname; result.scalar() is not None
check_database_exists(cat, name) == cat[name] > 0

\* CREATE DATABASE name, as the server answers it: the statement is refused
\* inside a transaction block (a connection that is not in AUTOCOMMIT has an
\* open transaction when its first statement runs), and the name is unique.
CreateDatabaseResult(cat, name, autocommit) ==
    IF ~autocommit THEN "ActiveSqlTransaction"
    ELSE IF cat[name] > 0 THEN "DuplicateDatabase"
    ELSE "ok"

\* a mutant of create_all: drop_all, then create every table
RecreateAll(tbls, miss) ==
    [t \in DOMAIN tbls \cup DeclaredTables |->
        IF t \in DeclaredTables THEN Metadata[t] ELSE tbls[t]]

\* CREATE TABLE for each table the check found missing
CreateTables(tbls, miss) ==
    [t \in DOMAIN tbls \cup miss |-> IF t \in miss THEN Metadata[t] ELSE tbls[t]]

(***************************************************************************)
(* Bootstrap processes.                                                    *)
(***************************************************************************)
Procs == {"p1", "p2"}
\* ensure:      a caller of db.create_database_if_not_exists (callsLeft times)
\* db_init:     db.py run directly, or a caller of db.init_db
\* initdb_main: init_db.py run directly
\* create:      a caller of init_db.create_database
Programs == {"ensure", "db_init", "initdb_main", "create"}

\* an engine fault (server unreachable, privilege refused) may hit a statement
FaultChoices == IF faultsLeft > 0 THEN {FALSE, TRUE} ELSE {FALSE}

\* where control goes when create_database_if_not_exists returns
AfterEnsure(p) ==
    IF prog[p] = "db_init" THEN "tables_check"
    ELSE IF callsLeft[p] > 1 THEN "call" ELSE "done"

\* db.py lines 156-168, 175, 185-186: the catalog query and the branch on it
EnsureCheck(p) ==
    /\ prog[p] \in {"ensure", "db_init"}
    /\ pc[p] \in {"start", "call"}
    /\ \E fault \in FaultChoices :
        LET exists == check_database_exists(catalog, TargetDb)
            next == IF fault THEN "raised"
                    ELSE IF exists THEN AfterEnsure(p) ELSE "create"
            returns == ~fault /\ exists
        IN  /\ faultsLeft' = IF fault THEN faultsLeft - 1 ELSE faultsLeft
            /\ pc' = [pc EXCEPT ![p] = next]
            /\ queryCount' = [queryCount EXCEPT ![p] = IF next = "call" THEN 0 ELSE @ + 1]
            /\ err' = [err EXCEPT ![p] = IF fault THEN "OperationalError" ELSE @]
            /\ engineErrs' = [engineErrs EXCEPT ![p] =
                                IF fault THEN Append(@, "OperationalError") ELSE @]
            /\ reports' = [reports EXCEPT ![p] =
                                IF returns THEN Append(@, "already exists") ELSE @]
            /\ callsLeft' = [callsLeft EXCEPT ![p] =
                                IF returns /\ prog[p] = "ensure" THEN @ - 1 ELSE @]
    /\ UNCHANGED <<catalog, catalogInit, tables, tablesInit, prog, missing,
                   caught, createCount>>
    /\ UNCHANGED <<cfgVars, dataVars>>

\* a mutant of EnsureCreate: a refused statement is issued again
EnsureCreateRetrying(p) ==
    /\ prog[p] \in {"ensure", "db_init"}
    /\ pc[p] = "create"
    /\ createCount[p] < 2
    /\ createCount' = [createCount EXCEPT ![p] = @ + 1]
    /\ engineErrs' = [engineErrs EXCEPT ![p] =
                        Append(@, CreateDatabaseResult(catalog, TargetDb, FALSE))]
    /\ UNCHANGED <<catalog, catalogInit, tables, tablesInit, prog, callsLeft, pc,
                   missing, err, caught, reports, queryCount, faultsLeft>>
    /\ UNCHANGED <<cfgVars, dataVars>>

\* db.py lines 176-184: CREATE DATABASE on a connection of a default engine
\* (no isolation_level), commit, report
EnsureCreate(p) ==
    /\ prog[p] \in {"ensure", "db_init"}
    /\ pc[p] = "create"
    /\ \E fault \in FaultChoices :
        LET res == IF fault THEN "OperationalError"
                   ELSE CreateDatabaseResult(catalog, TargetDb, FALSE)
            ok == res = "ok"
            next == IF ok THEN AfterEnsure(p) ELSE "raised"
        IN  /\ faultsLeft' = IF fault THEN faultsLeft - 1 ELSE faultsLeft
            /\ catalog' = IF ok THEN [catalog EXCEPT ![TargetDb] = @ + 1] ELSE catalog
            /\ pc' = [pc EXCEPT ![p] = next]
            /\ createCount' = [createCount EXCEPT ![p] = IF next = "call" THEN 0 ELSE @ + 1]
            /\ queryCount' = [queryCount EXCEPT ![p] = IF next = "call" THEN 0 ELSE @]
            /\ err' = [err EXCEPT ![p] = IF ok THEN @ ELSE res]
            /\ engineErrs' = [engineErrs EXCEPT ![p] = IF ok THEN @ ELSE Append(@, res)]
            /\ reports' = [reports EXCEPT ![p] = IF ok THEN Append(@, "created") ELSE @]
            /\ callsLeft' = [callsLeft EXCEPT ![p] =
                                IF ok /\ prog[p] = "ensure" THEN @ - 1 ELSE @]
    /\ UNCHANGED <<catalogInit, tables, tablesInit, prog, missing, caught>>
    /\ UNCHANGED <<cfgVars, dataVars>>

\* init_db.py lines 5-12: CREATE DATABASE on an AUTOCOMMIT connection, with no
\* catalog check before it.  `handled` says whether the call stands in the
\* try/except of init_db.py lines 20-23, which catches every Exception,
\* reports it and goes on.
create_database(p, handled) ==
    /\ pc[p] = "start"
    /\ \E fault \in FaultChoices :
        LET res == IF fault THEN "OperationalError"
                   ELSE CreateDatabaseResult(catalog, TargetDb, TRUE)
            ok == res = "ok"
            next == IF ok \/ handled
                    THEN (IF prog[p] = "initdb_main" THEN "tables_check" ELSE "done")
                    ELSE "raised"
        IN  /\ faultsLeft' = IF fault THEN faultsLeft - 1 ELSE faultsLeft
            /\ catalog' = IF ok THEN [catalog EXCEPT ![TargetDb] = @ + 1] ELSE catalog
            /\ pc' = [pc EXCEPT ![p] = next]
            /\ createCount' = [createCount EXCEPT ![p] = @ + 1]
            /\ engineErrs' = [engineErrs EXCEPT ![p] = IF ok THEN @ ELSE Append(@, res)]
            /\ caught' = [caught EXCEPT ![p] = IF ~ok /\ handled THEN res ELSE @]
            /\ err' = [err EXCEPT ![p] = IF ~ok /\ ~handled THEN res ELSE @]
            /\ reports' = [reports EXCEPT ![p] =
                             IF ok THEN Append(@, "created successfully")
                             ELSE IF handled THEN Append(@, "might already exist")
                             ELSE @]
    /\ UNCHANGED <<catalogInit, tables, tablesInit, prog, callsLeft, missing,
                   queryCount>>
    /\ UNCHANGED <<cfgVars, dataVars>>

\* a mutant of InitDbMainCreate: the call stands outside any try/except
InitDbMainUnguarded(p) ==
    /\ prog[p] = "initdb_main"
    /\ create_database(p, FALSE)

\* init_db.py lines 19-23: the direct-invocation entry point
InitDbMainCreate(p) ==
    /\ prog[p] = "initdb_main"
    /\ create_database(p, TRUE)

\* any other caller of init_db.create_database
CallerCreate(p) ==
    /\ prog[p] = "create"
    /\ create_database(p, FALSE)

\* Base.metadata.create_all(bind=engine), db.py line 195 and init_db.py line 16:
\* connect to the target database and look which declared tables it lacks
CreateAllCheck(p) ==
    /\ pc[p] = "tables_check"
    /\ \E fault \in FaultChoices :
        LET e == IF fault THEN "OperationalError"
                 ELSE IF ~check_database_exists(catalog, TargetDb)
                 THEN "InvalidCatalogName"
                 ELSE NoErr
        IN  /\ faultsLeft' = IF fault THEN faultsLeft - 1 ELSE faultsLeft
            /\ pc' = [pc EXCEPT ![p] = IF e = NoErr THEN "tables_create" ELSE "raised"]
            /\ err' = [err EXCEPT ![p] = IF e = NoErr THEN @ ELSE e]
            /\ engineErrs' = [engineErrs EXCEPT ![p] =
                                IF e = NoErr THEN @ ELSE Append(@, e)]
            /\ missing' = [missing EXCEPT ![p] =
                             IF e = NoErr THEN DeclaredTables \ DOMAIN tables ELSE @]
    /\ UNCHANGED <<catalog, catalogInit, tables, tablesInit, prog, callsLeft,
                   caught, reports, queryCount, createCount>>
    /\ UNCHANGED <<cfgVars, dataVars>>

\* create_all, second half: CREATE TABLE for the missing tables in one
\* transaction; a table created meanwhile by another process makes the
\* statement fail and the transaction roll back.  Then the status line
\* (db.py line 196, init_db.py line 17).
CreateAllCreate(p) ==
    /\ pc[p] = "tables_create"
    /\ LET clash == missing[p] \cap DOMAIN tables # {}
       IN  /\ tables' = IF clash THEN tables ELSE CreateTables(tables, missing[p])
           /\ pc' = [pc EXCEPT ![p] = IF clash THEN "raised" ELSE "done"]
           /\ err' = [err EXCEPT ![p] = IF clash THEN "DuplicateTable" ELSE @]
           /\ engineErrs' = [engineErrs EXCEPT ![p] =
                               IF clash THEN Append(@, "DuplicateTable") ELSE @]
           /\ reports' = [reports EXCEPT ![p] =
                            IF clash THEN @ ELSE Append(@, "tables initialized")]
    /\ UNCHANGED <<catalog, catalogInit, tablesInit, prog, callsLeft, missing,
                   caught, queryCount, createCount, faultsLeft>>
    /\ UNCHANGED <<cfgVars, dataVars>>

(***************************************************************************)
(* Specifications of the configuration and of the bootstrap.               *)
(***************************************************************************)
CfgIdle ==
    /\ osEnviron = NoVals /\ dotenvFile = NoVals /\ cfgPc = "off"
    /\ cfgVals = NoVals /\ engineState = "none" /\ netCalls = 0

BootIdle ==
    /\ catalog = [d \in DbNames |-> 1] /\ catalogInit = catalog
    /\ tables = Metadata /\ tablesInit = tables
    /\ prog = [p \in Procs |-> "off"] /\ callsLeft = [p \in Procs |-> 0]
    /\ pc = [p \in Procs |-> "off"] /\ missing = [p \in Procs |-> {}]
    /\ err = [p \in Procs |-> NoErr] /\ caught = [p \in Procs |-> NoErr]
    /\ reports = [p \in Procs |-> <<>>]
    /\ queryCount = [p \in Procs |-> 0] /\ createCount = [p \in Procs |-> 0]
    /\ engineErrs = [p \in Procs |-> <<>>] /\ faultsLeft = 0

DataIdle ==
    /\ committed = {} /\ pending = <<>> /\ flushed = <<>> /\ seq = <<>>
    /\ clock = 0 /\ finalized = {} /\ insertLog = <<>> /\ objsMade = 0
    /\ sessErr = <<>>

InitConfig ==
    /\ osEnviron \in EnvSpace /\ dotenvFile \in EnvSpace
    /\ cfgPc = "start" /\ cfgVals = NoVals
    /\ engineState = "none" /\ netCalls = 0
    /\ BootIdle /\ DataIdle

NextConfig ==
    \/ LoadDotenv
    \/ ReadEnv
    \/ CheckRequired
    \/ ImportDb
    \/ FirstConnect

SpecConfig == InitConfig /\ [][NextConfig]_vars

InitBoot ==
    /\ catalog \in {c \in [DbNames -> 0..1] : c[DefaultDb] = 1}
    /\ catalogInit = catalog
    /\ tables \in (IF catalog[TargetDb] = 0 THEN {NoTables} ELSE InitialTables)
    /\ tablesInit = tables
    /\ prog \in [Procs -> Programs]
    /\ callsLeft \in [Procs -> 0..MaxCalls]
    /\ \A p \in Procs : (callsLeft[p] > 0) = (prog[p] = "ensure")
    /\ pc = [p \in Procs |-> "start"] /\ missing = [p \in Procs |-> {}]
    /\ err = [p \in Procs |-> NoErr] /\ caught = [p \in Procs |-> NoErr]
    /\ reports = [p \in Procs |-> <<>>]
    /\ queryCount = [p \in Procs |-> 0] /\ createCount = [p \in Procs |-> 0]
    /\ engineErrs = [p \in Procs |-> <<>>]
    /\ faultsLeft = MaxFaults
    /\ CfgIdle /\ DataIdle

NextBoot ==
    \E p \in Procs :
        \/ EnsureCheck(p)
        \/ EnsureCreate(p)
        \/ InitDbMainCreate(p)
        \/ CallerCreate(p)
        \/ CreateAllCheck(p)
        \/ CreateAllCreate(p)

SpecBoot == InitBoot /\ [][NextBoot]_vars

(***************************************************************************)
(* Properties of configuration loading.                                    *)
(***************************************************************************)
UrlAbsent(v) == v \in {Unset, ""}

\* C5: when DATABASE_URL is missing or empty after the environment is loaded,
\* loading fails: no engine is built and no connection is opened.  Loading
\* fails for no other reason, so a missing BOT_TOKEN or OPENAI_API_KEY alone
\* never aborts it.
C5_FailFast ==
    /\ (engineState = "built" \/ netCalls > 0) => ~UrlAbsent(cfgVals["DATABASE_URL"])
    /\ (cfgPc \in {"config_loaded", "db_imported", "connected"})
            => ~UrlAbsent(osEnviron["DATABASE_URL"])
    /\ (cfgPc = "failed")
            => /\ UrlAbsent(osEnviron["DATABASE_URL"])
               /\ engineState = "none"
               /\ netCalls = 0

\* loading failed on an empty connection string, nothing built or opened
C5_Witness ==
    /\ cfgPc = "failed"
    /\ cfgVals["DATABASE_URL"] = ""
    /\ engineState = "none" /\ netCalls = 0

(***************************************************************************)
(* Properties of the bootstrap.                                            *)
(***************************************************************************)
Finished(p) == pc[p] \in {"done", "raised"}
Said(p, line) == \E i \in 1..Len(reports[p]) : reports[p][i] = line
Raised(p, e) == \E i \in 1..Len(engineErrs[p]) : engineErrs[p][i] = e
NoFaultYet == faultsLeft = MaxFaults

\* C1: from an absent database, with no other process at work and no engine
\* fault, a caller of create_database_if_not_exists never ends in an error; its
\* first call reports 'created', its second 'already exists', and after both
\* the catalog holds one entry for the target.
C1_TwiceIdempotent ==
    \A p \in Procs :
        (/\ prog[p] = "ensure"
         /\ catalogInit[TargetDb] = 0
         /\ NoFaultYet
         /\ \A q \in Procs \ {p} : pc[q] = "start")
        => /\ pc[p] # "raised"
           /\ Len(reports[p]) >= 1 => reports[p][1] = "created"
           /\ Len(reports[p]) >= 2 => reports[p][2] = "already exists"
           /\ (pc[p] = "done" /\ Len(reports[p]) = 2) => catalog[TargetDb] = 1

\* C2: processes racing through create_database_if_not_exists from an absent
\* database never leave more than one catalog entry; once all have ended,
\* exactly one has created the database and every other one has reported
\* 'already exists' or ended in the name-collision error.
C2_RaceOutcome ==
    (/\ \A p \in Procs : prog[p] = "ensure"
     /\ catalogInit[TargetDb] = 0
     /\ NoFaultYet)
    => /\ catalog[TargetDb] <= 1
       /\ (\A p \in Procs : Finished(p))
            => /\ Cardinality({p \in Procs : Said(p, "created")}) = 1
               /\ \A p \in Procs :
                    \/ Said(p, "created")
                    \/ pc[p] = "done" /\ Said(p, "already exists")
                    \/ pc[p] = "raised" /\ err[p] = "DuplicateDatabase"

C4_TablesOnlyOnExistingDb ==
    \A p \in Procs :
        pc[p] = "tables_check"
        => /\ queryCount[p] + createCount[p] > 0
           /\ catalog[TargetDb] > 0

\* what create_all has to leave behind, given the tables found at the start
ExpectedTables ==
    [t \in DOMAIN tablesInit \cup DeclaredTables |->
        IF t \in DOMAIN tablesInit THEN tablesInit[t] ELSE Metadata[t]]

\* C6: create_all never alters or drops a table it finds, creates only the
\* declared tables that are missing, each with its declared shape, and once a
\* create_all has completed the schema stays what that call left (exactly the
\* nine declared tables when the database had none).
C6_CreateAll ==
    /\ \A t \in DOMAIN tablesInit : t \in DOMAIN tables /\ tables[t] = tablesInit[t]
    /\ \A t \in DOMAIN tables \ DOMAIN tablesInit :
            t \in DeclaredTables /\ tables[t] = Metadata[t]
    /\ (\E p \in Procs : Said(p, "tables initialized")) => tables = ExpectedTables
    /\ (tablesInit = NoTables /\ \E p \in Procs : Said(p, "tables initialized"))
            => /\ DOMAIN tables = DeclaredTables
               /\ Cardinality(DOMAIN tables) = 9
               /\ tables = Metadata

\* two processes completed create_all on a database that had no tables
C6_Witness ==
    /\ tablesInit = NoTables
    /\ \A p \in Procs : Said(p, "tables initialized")
    /\ tables = Metadata

\* a create_all completed beside a table of another shape, left as it was
C6_LegacyKept ==
    /\ tablesInit = LegacyTables
    /\ \E p \in Procs : Said(p, "tables initialized")

\* C9: within one invocation the catalog query and the CREATE DATABASE are
\* each issued at most once, and an engine error ends the invocation and
\* reaches the caller unchanged: the process ends with that error, or, in
\* init_db.py run directly, the entry point's except clause receives it.
C9_NoRetry ==
    \A p \in Procs :
        LET e == engineErrs[p]
            uncaught == IF caught[p] # NoErr THEN Tail(e) ELSE e
        IN  /\ queryCount[p] <= 1
            /\ createCount[p] <= 1
            /\ caught[p] # NoErr => (e # <<>> /\ e[1] = caught[p])
            /\ uncaught # <<>> => /\ Len(uncaught) = 1
                                  /\ pc[p] = "raised"
                                  /\ err[p] = uncaught[1]
            /\ pc[p] = "raised" => uncaught # <<>>

\* a CREATE DATABASE was refused once and the caller got that error
C9_Witness ==
    \E p \in Procs :
        /\ prog[p] = "ensure" /\ pc[p] = "raised"
        /\ queryCount[p] = 1 /\ createCount[p] = 1
        /\ engineErrs[p] = <<"ActiveSqlTransaction">>
        /\ err[p] = "ActiveSqlTransaction"

(***************************************************************************)
(* Units of work: SessionLocal = sessionmaker(autocommit=False,            *)
(* autoflush=False, bind=engine), db.py line 21, and the rows the mapped   *)
(* classes store.                                                          *)
(***************************************************************************)
Sessions == {"s1", "s2"}

\* a mutant of the session factory: sessionmaker(autocommit=True, ...)
AutocommitOn == TRUE
SessionAutocommit == FALSE

\* the primary key of each mapped class (primary_key=True)
PrimaryKey ==
    [t \in DeclaredTables |->
        CASE t = "Roles" -> "role_id"
          [] t = "Users" -> "user_id"
          [] t = "Projects" -> "project_id"
          [] t = "Backlog" -> "backlog_id"
          [] t = "Resources" -> "resource_id"
          [] t = "Statuses" -> "status_id"
          [] t = "Tasks" -> "task_id"
          [] t = "Logs" -> "log_id"
          [] t = "Comments" -> "comment_id"]

\* the columns that hold another row's key, with the table the relationship()
\* declarations pair them with
ReferenceColumn ==
    [c \in {"role_id", "project_id", "status_id", "assigned_user_id",
            "user_id", "task_id"} |->
        CASE c = "role_id" -> "Roles"
          [] c = "project_id" -> "Projects"
          [] c = "status_id" -> "Statuses"
          [] c = "assigned_user_id" -> "Users"
          [] c = "user_id" -> "Users"
          [] c = "task_id" -> "Tasks"]
RefCols(t) == (Metadata[t].cols \cap DOMAIN ReferenceColumn) \ {PrimaryKey[t]}

\* Column(DateTime, default=datetime.utcnow, nullable=False)
DateDefaultColumn ==
    [t \in {"Backlog", "Logs", "Comments"} |->
        IF t = "Logs" THEN "change_date" ELSE "created_date"]
HasDate(t) == t \in DOMAIN DateDefaultColumn

Null == 0           \* None in a reference column
NoDate == -1        \* a table without a defaulted date column
UseDefault == -2    \* the caller gave no date
ImportTime == 0     \* the clock when db.py was imported

\* a mutant of the column default: default=datetime.utcnow(), evaluated once
\* when the class is defined
DefaultAtImport(now) == ImportTime

\* default=datetime.utcnow: the callable is called for each INSERT
DefaultDate(now) == now

\* the mapped classes whose objects the callers of this model construct
DataTables == {"Projects", "Tasks", "Backlog"}

\* the objects a caller may construct: reference columns hold None or key 1,
\* the date is left to the default or given (as the import-time instant)
NewObjects ==
    UNION {
        {[tbl |-> t, vals |-> v, date |-> d] :
            v \in [RefCols(t) -> {Null, 1}],
            d \in (IF HasDate(t) THEN {UseDefault, ImportTime} ELSE {NoDate})}
        : t \in DataTables}

\* the unit of work inserts parents before children: a table's rank is the
\* length of its longest chain of relationships to a table without any
RECURSIVE TableRank(_)
TableRank(t) ==
    LET parents == {ReferenceColumn[c] : c \in RefCols(t)}
    IN  IF parents = {} THEN 0
        ELSE 1 + CHOOSE m \in 0..3 :
                    /\ \E q \in parents : TableRank(q) = m
                    /\ \A q \in parents : TableRank(q) <= m
TableRanks == [t \in DeclaredTables |-> TableRank(t)]
MaxRank == 3
RECURSIVE FlushOrderFrom(_, _)
FlushOrderFrom(objs, k) ==
    IF k > MaxRank THEN <<>>
    ELSE SelectSeq(objs, LAMBDA o : TableRanks[o.tbl] = k) \o FlushOrderFrom(objs, k + 1)
FlushOrder(objs) == FlushOrderFrom(objs, 0)

\* the storage engine's check of one INSERT against the rows the transaction
\* sees: every declared foreign key is null or names a visible parent row
ForeignKeysHold(o, visible) ==
    \A fk \in Metadata[o.tbl].fks :
        \/ o.vals[fk[1]] = Null
        \/ \E r \in visible : r.tbl = fk[2] /\ r.id = o.vals[fk[1]]

\* the INSERTs of one flush, in order; the first refused INSERT ends it.
\* Each INSERT draws the next key of its table's sequence and, where the date
\* was not given, the column default.
RECURSIVE InsertAll(_, _, _, _, _)
InsertAll(objs, visible, sq, now, s) ==
    IF objs = <<>> THEN [ok |-> TRUE, rows |-> {}, seq |-> sq, log |-> <<>>]
    ELSE
        LET o == Head(objs)
            dflt == o.date = UseDefault
            row == [tbl |-> o.tbl, id |-> sq[o.tbl] + 1, vals |-> o.vals,
                    date |-> IF dflt THEN DefaultDate(now) ELSE o.date,
                    dflt |-> dflt, at |-> now, by |-> s]
            sq2 == [sq EXCEPT ![o.tbl] = @ + 1]
        IN  IF ~ForeignKeysHold(o, visible)
            THEN [ok |-> FALSE, rows |-> {}, seq |-> sq2, log |-> <<>>]
            ELSE LET rest == InsertAll(Tail(objs), visible \cup {row}, sq2, now, s)
                 IN  [ok |-> rest.ok,
                      rows |-> IF rest.ok THEN {row} \cup rest.rows ELSE {},
                      seq |-> rest.seq,
                      log |-> (IF dflt THEN <<row.date>> ELSE <<>>) \o rest.log]

\* READ COMMITTED: a transaction sees the committed rows and its own
Visible(s) == committed \cup flushed[s]
Key(r) == <<r.tbl, r.id>>
FlushResult(s) == InsertAll(FlushOrder(pending[s]), Visible(s), seq, clock, s)

\* session.add(obj)
Add(s) ==
    /\ objsMade < MaxObjs
    /\ \E o \in NewObjects :
        pending' = [pending EXCEPT ![s] = Append(@, o)]
    /\ objsMade' = objsMade + 1
    /\ UNCHANGED <<committed, flushed, seq, clock, finalized, insertLog, sessErr>>
    /\ UNCHANGED <<cfgVars, bootVars>>

\* session.flush(): the pending objects are inserted in the session's
\* transaction; a refused INSERT raises IntegrityError and the transaction is
\* rolled back.  Under autocommit the flush commits what it wrote.
Flush(s) ==
    /\ pending[s] # <<>>
    /\ LET f == FlushResult(s)
       IN  /\ seq' = f.seq
           /\ insertLog' = insertLog \o f.log
           /\ pending' = [pending EXCEPT ![s] = <<>>]
           /\ flushed' = [flushed EXCEPT ![s] =
                            IF ~f.ok THEN {}
                            ELSE IF SessionAutocommit THEN @ ELSE @ \cup f.rows]
           /\ committed' = IF f.ok /\ SessionAutocommit
                           THEN committed \cup f.rows ELSE committed
           /\ sessErr' = [sessErr EXCEPT ![s] =
                            IF f.ok THEN NoErr ELSE "IntegrityError"]
    /\ UNCHANGED <<clock, finalized, objsMade>>
    /\ UNCHANGED <<cfgVars, bootVars>>

\* session.commit(): flush, then COMMIT; a refused INSERT rolls back instead
Commit(s) ==
    /\ pending[s] # <<>> \/ flushed[s] # {}
    /\ LET f == FlushResult(s)
           written == flushed[s] \cup f.rows
       IN  /\ seq' = f.seq
           /\ insertLog' = insertLog \o f.log
           /\ pending' = [pending EXCEPT ![s] = <<>>]
           /\ flushed' = [flushed EXCEPT ![s] = {}]
           /\ committed' = IF f.ok THEN committed \cup written ELSE committed
           /\ finalized' = IF f.ok THEN finalized \cup {Key(r) : r \in written}
                           ELSE finalized
           /\ sessErr' = [sessErr EXCEPT ![s] =
                            IF f.ok THEN NoErr ELSE "IntegrityError"]
    /\ UNCHANGED <<clock, objsMade>>
    /\ UNCHANGED <<cfgVars, bootVars>>

\* session.rollback() or session.close() without commit: the unit of work is
\* abandoned
Abandon(s) ==
    /\ pending[s] # <<>> \/ flushed[s] # {}
    /\ pending' = [pending EXCEPT ![s] = <<>>]
    /\ flushed' = [flushed EXCEPT ![s] = {}]
    /\ UNCHANGED <<committed, seq, clock, finalized, insertLog, objsMade, sessErr>>
    /\ UNCHANGED <<cfgVars, bootVars>>

\* time passes
Tick ==
    /\ clock < MaxClock
    /\ clock' = clock + 1
    /\ UNCHANGED <<committed, pending, flushed, seq, finalized, insertLog,
                   objsMade, sessErr>>
    /\ UNCHANGED <<cfgVars, bootVars>>

InitData ==
    /\ committed = {}
    /\ pending = [s \in Sessions |-> <<>>]
    /\ flushed = [s \in Sessions |-> {}]
    /\ seq = [t \in DeclaredTables |-> 0]
    /\ clock = ImportTime
    /\ finalized = {}
    /\ insertLog = <<>>
    /\ objsMade = 0
    /\ sessErr = [s \in Sessions |-> NoErr]
    /\ CfgIdle /\ BootIdle

NextData ==
    \/ \E s \in Sessions :
        \/ Add(s)
        \/ Flush(s)
        \/ Commit(s)
        \/ Abandon(s)
    \/ Tick

SpecData == InitData /\ [][NextData]_vars

(***************************************************************************)
(* Properties of the units of work.                                        *)
(***************************************************************************)
AllRows == committed \cup UNION {flushed[s] : s \in Sessions}

\* the reference in column c of row r names a row among `rows`
Refers(r, c, rows) ==
    \E q \in rows : q.tbl = ReferenceColumn[c] /\ q.id = r.vals[c]

\* C7: every non-null reference of every stored row names an existing parent
\* row: a committed row's parent is committed, a row written in a transaction
\* has its parent committed or written in that transaction; a session whose
\* INSERT was refused holds no row of its own.
C7_ReferentialIntegrity ==
    /\ \A r \in committed : \A c \in DOMAIN r.vals :
            r.vals[c] # Null => Refers(r, c, committed)
    /\ \A s \in Sessions : \A r \in flushed[s] : \A c \in DOMAIN r.vals :
            r.vals[c] # Null => Refers(r, c, Visible(s))
    /\ \A s \in Sessions : sessErr[s] = "IntegrityError" => flushed[s] = {}

\* a Task without project, status and user is stored, and a session's INSERT
\* of a row naming a parent that does not exist was refused
C7_Witness ==
    /\ \E r \in committed :
            r.tbl = "Tasks" /\ \A c \in DOMAIN r.vals : r.vals[c] = Null
    /\ \E s \in Sessions : sessErr[s] = "IntegrityError"

\* a row is durable only if its session called commit(), and what a unit of
\* work sees of the others is only what they committed
ExplicitCommit ==
    /\ \A r \in committed : Key(r) \in finalized
    /\ \A s \in Sessions : \A r \in Visible(s) : r.by = s \/ Key(r) \in finalized
    /\ \A s, t \in Sessions : s # t => flushed[s] \cap Visible(t) = {}

\* one session has written a row it has not committed, beside a committed
\* row of the other session
C8_Witness ==
    \E s, t \in Sessions :
        /\ s # t
        /\ flushed[s] # {}
        /\ \E r \in committed : r.by = t
        /\ \A r \in flushed[s] : r \notin committed

\* a step that drops a session's uncommitted work without a commit leaves
\* the committed rows as they were
AbandonKeepsStore ==
    \A s \in Sessions :
        (flushed[s] # {} /\ flushed'[s] = {} /\ finalized' = finalized)
            => committed' = committed

\* C8: writes of one unit of work are not visible to another before the first
\* commits, no row becomes durable without an explicit commit(), and a unit of
\* work abandoned without commit leaves the committed rows exactly as they
\* were.
C8_Isolation == []ExplicitCommit /\ [][AbandonKeepsStore]_vars

NonDecreasing(q) == \A i, j \in 1..Len(q) : i <= j => q[i] <= q[j]

\* C10: a row inserted without a date holds the clock's value at its
\* insertion, a dated table never holds a null date, and the dates of
\* default-dated inserts are non-decreasing in insertion order.
C10_DefaultDate ==
    /\ \A r \in AllRows :
        /\ r.dflt => (r.date = r.at /\ r.date # NoDate)
        /\ HasDate(r.tbl) => r.date >= ImportTime
    /\ NonDecreasing(insertLog)

\* two default-dated rows inserted at different moments, the later one stored
C10_Witness ==
    /\ Len(insertLog) >= 2
    /\ insertLog[1] < insertLog[2]
    /\ \E r \in AllRows : r.tbl = "Backlog" /\ r.dflt /\ r.date = insertLog[2]

====
